---- MODULE Spec2Model ----
(***************************************************************************)
(* A model of the code-review assistant's tools (code_review_assistant/    *)
(* tools.py) and of the sequential review pipeline that calls them         *)
(* (code_review_assistant/agent.py).                                       *)
(*                                                                         *)
(* Spec         the session: submissions run through the pipeline, tools   *)
(*              read and write the session state                           *)
(* SpecGrading  the session with every behaviour of the memory and the     *)
(*              artifact service                                           *)
(* SpecConcurrent  two analyze_code_structure calls interleaved at their   *)
(*              await points on one session state                          *)
(* SpecHarness  the test harness builder and the execution of the script   *)
(*              it emits, for arbitrary function lists                     *)
(***************************************************************************)
EXTENDS Integers, Sequences, FiniteSets, TLC

VARIABLES
    state,      \* tool_context.state: the keys present and their values
    pc,         \* the sub-agent of CodeReviewPipeline that runs next
    pending,    \* the code argument of the submission being reviewed
    nsub,       \* submissions made in this session
    ret,        \* the dict the last tool call returned
    last,       \* the last tool call: its name and its code argument
    ran,        \* the tools called for the current submission
    outcome,    \* how the structure analysis of the current submission ended
    stdout,     \* what the last executed test script printed
    tmp_files,  \* temporary files of style checks that still exist
    artifacts,  \* the artifact service: versions saved under each filename
    report,     \* the report save_grading_report built for this submission
    tasks,      \* concurrent analyze_code_structure calls: where each stands
    hfunctions, \* harness builder input: the function list
    hbehaviour, \* how the body of each listed function behaves when called
    hscript,    \* the script the builder emitted
    hpc,        \* where the execution of the script stands
    hpos,       \* the next test block to execute
    test_results,      \* the script's test_results list
    execution_errors,  \* the script's execution_errors list
    output      \* what the script printed

(***************************************************************************)
(* Generic helpers                                                         *)
(***************************************************************************)
Min(a, b) == IF a <= b THEN a ELSE b
Max(a, b) == IF a >= b THEN a ELSE b

\* Python slice s[:n]
Take(s, n) == SubSeq(s, 1, Min(n, Len(s)))

\* dict.get(key, default) on a dict modelled as a function on its present keys
Get(d, k, default) == IF k \in DOMAIN d THEN d[k] ELSE default

\* d[k] = v
Put(d, k, v) == (k :> v) @@ d

(***************************************************************************)
(* Submitted source texts.  A text is named by an identifier; what the     *)
(* Python parser, the style backend and the interpreter make of the text   *)
(* is given by the operators below.  The texts:                            *)
(*                                                                         *)
(*  add_ok        def add(a, b):                                           *)
(*                    return a + b                                         *)
(*  add_lint      import os                                                *)
(*                def add(a,b):                                            *)
(*                    """Adds two numbers."""                              *)
(*                    return (a                (test_code_inputs/          *)
(*                            +b)  # ...       needs_linting.py, short;    *)
(*                                             line 5 is 90 columns long)  *)
(*  no_funcs      x = 1                                                    *)
(*                y = x + 1                                                *)
(*  private_only  def _helper(x):                                          *)
(*                    return x                                             *)
(*                def main():                                              *)
(*                    pass                                                 *)
(*  messy         from typing import List                                  *)
(*                class Calculator:                                        *)
(*                    def add(self, value):                                *)
(*                        return value                                     *)
(*                def fibonacci(n):                                        *)
(*                    def _step(k):                                        *)
(*                        return k                                         *)
(*                    return n + 1                                         *)
(*                async def fetch(url):                                    *)
(*                    raise ValueError("no network")                       *)
(*                (and one style violation on almost every column)         *)
(*  untokenized   def show(x):                                             *)
(*                    return x      (a text the style backend chokes on)   *)
(*  syntax_a      def f(                                                   *)
(*  syntax_b      x = 1                                                    *)
(*                y = 2                                                    *)
(*                def g(:                                                  *)
(***************************************************************************)
ValidTexts == {"add_ok", "add_lint", "no_funcs", "private_only", "messy",
               "untokenized"}
BrokenTexts == {"syntax_a", "syntax_b"}
Texts == ValidTexts \cup BrokenTexts

\* AST nodes, every kind with the same fields
Node(kind, name, args, lineno, end_lineno, doclen, decos, bases, names, lvl, body) ==
    [kind |-> kind, name |-> name, args |-> args, lineno |-> lineno,
     end_lineno |-> end_lineno, doclen |-> doclen, decorators |-> decos,
     bases |-> bases, names |-> names, level |-> lvl, body |-> body]

\* doclen: length of the docstring, -1 when the node has none
FunctionDef(name, args, lineno, end_lineno, doclen, body) ==
    Node("FunctionDef", name, args, lineno, end_lineno, doclen, <<>>, <<>>,
         <<>>, 0, body)
AsyncFunctionDef(name, args, lineno, end_lineno, doclen, body) ==
    Node("AsyncFunctionDef", name, args, lineno, end_lineno, doclen, <<>>,
         <<>>, <<>>, 0, body)
ClassDef(name, lineno, end_lineno, doclen, bases, body) ==
    Node("ClassDef", name, <<>>, lineno, end_lineno, doclen, <<>>, bases,
         <<>>, 0, body)
\* import a as b, c: names is a sequence of [name, asname]
Import(lineno, names) ==
    Node("Import", "", <<>>, lineno, lineno, -1, <<>>, <<>>, names, 0, <<>>)
\* from m import a, b
ImportFrom(lineno, module, names, level) ==
    Node("ImportFrom", module, <<>>, lineno, lineno, -1, <<>>, <<>>, names,
         level, <<>>)
Stmt(lineno) ==
    Node("Stmt", "", <<>>, lineno, lineno, -1, <<>>, <<>>, <<>>, 0, <<>>)
Module(body) ==
    Node("Module", "", <<>>, 0, 0, -1, <<>>, <<>>, <<>>, 0, body)

Alias(name, asname) == [name |-> name, asname |-> asname]

\* len(code.splitlines())
LineCount(t) ==
    CASE t = "add_ok" -> 2
      [] t = "add_lint" -> 5
      [] t = "no_funcs" -> 2
      [] t = "private_only" -> 4
      [] t = "messy" -> 10
      [] t = "untokenized" -> 2
      [] t = "syntax_a" -> 1
      [] t = "syntax_b" -> 3
      [] OTHER -> 0

\* '__main__' in code
HasIfMain(t) == FALSE

\* ast.parse(code): the tree, or the SyntaxError the parser raises
ParseTree(t) ==
    CASE t = "add_ok" ->
           Module(<<FunctionDef("add", <<"a", "b">>, 1, 2, -1, <<Stmt(2)>>)>>)
      [] t = "add_lint" ->
           Module(<<Import(1, <<Alias("os", "")>>),
                    FunctionDef("add", <<"a", "b">>, 2, 5, 19, <<Stmt(4)>>)>>)
      [] t = "no_funcs" -> Module(<<Stmt(1), Stmt(2)>>)
      [] t = "private_only" ->
           Module(<<FunctionDef("_helper", <<"x">>, 1, 2, -1, <<Stmt(2)>>),
                    FunctionDef("main", <<>>, 3, 4, -1, <<Stmt(4)>>)>>)
      [] t = "messy" ->
           Module(<<ImportFrom(1, "typing", <<Alias("List", "")>>, 0),
                    ClassDef("Calculator", 2, 4, -1, <<>>,
                       <<FunctionDef("add", <<"self", "value">>, 3, 4, -1,
                                     <<Stmt(4)>>)>>),
                    FunctionDef("fibonacci", <<"n">>, 5, 8, -1,
                       <<FunctionDef("_step", <<"k">>, 6, 7, -1, <<Stmt(7)>>),
                         Stmt(8)>>),
                    AsyncFunctionDef("fetch", <<"url">>, 9, 10, -1,
                                     <<Stmt(10)>>)>>)
      [] t = "untokenized" ->
           Module(<<FunctionDef("show", <<"x">>, 1, 2, -1, <<Stmt(2)>>)>>)
      [] OTHER -> Module(<<>>)

NoSyntaxError == [raised |-> FALSE, lineno |-> 0, offset |-> 0, msg |-> ""]
ParseError(t) ==
    CASE t = "syntax_a" ->
           [raised |-> TRUE, lineno |-> 1, offset |-> 6,
            msg |-> "'(' was never closed"]
      [] t = "syntax_b" ->
           [raised |-> TRUE, lineno |-> 3, offset |-> 7,
            msg |-> "invalid syntax"]
      [] OTHER -> NoSyntaxError

(***************************************************************************)
(* Python values passed as the `code` argument of a tool                   *)
(***************************************************************************)
PyStr(t) == [py |-> "str", text |-> t]
PyNone == [py |-> "NoneType", text |-> ""]
PyInt(n) == [py |-> "int", text |-> n]
PyList(n) == [py |-> "list", text |-> n]

\* bool(code)
Truthy(c) ==
    CASE c.py = "str" -> c.text # ""
      [] c.py = "NoneType" -> FALSE
      [] c.py = "int" -> c.text # "0"
      [] c.py = "list" -> c.text # "[]"
      [] OTHER -> TRUE

\* isinstance(code, str)
IsStr(c) == c.py = "str"

\* what a caller can hand to analyze_code_structure
CodeArgs ==
    {PyStr(t) : t \in Texts \cup {""}} \cup {PyNone, PyInt("7"), PyList("[]")}

(***************************************************************************)
(* _extract_code_structure and _calculate_avg_function_length              *)
(***************************************************************************)
\* isinstance(node, ast.<cls>): FunctionDef, AsyncFunctionDef, ClassDef,
\* Import and ImportFrom are distinct classes, none a subclass of another
IsInstance(node, cls) == node.kind = cls

\* ast.walk(tree): breadth-first, a deque that is popped on the left and
\* extended with the popped node's children
RECURSIVE Walk(_)
Walk(todo) ==
    IF todo = <<>> THEN <<>>
    ELSE <<Head(todo)>> \o Walk(Tail(todo) \o Head(todo).body)

\* [d.id for d in node.decorator_list if isinstance(d, ast.Name)]
RECURSIVE NameIds(_)
NameIds(exprs) ==
    IF exprs = <<>> THEN <<>>
    ELSE (IF Head(exprs).kind = "Name" THEN <<Head(exprs).id>> ELSE <<>>)
             \o NameIds(Tail(exprs))

FuncInfo(node) ==
    [name |-> node.name,
     args |-> node.args,
     lineno |-> node.lineno,
     has_docstring |-> node.doclen >= 0,
     is_async |-> IsInstance(node, "AsyncFunctionDef"),
     decorators |-> NameIds(node.decorators)]

\* methods of a class: the FunctionDef items of its body
RECURSIVE MethodNames(_)
MethodNames(items) ==
    IF items = <<>> THEN <<>>
    ELSE (IF IsInstance(Head(items), "FunctionDef")
          THEN <<Head(items).name>> ELSE <<>>) \o MethodNames(Tail(items))

ClassInfo(node) ==
    [name |-> node.name,
     lineno |-> node.lineno,
     methods |-> MethodNames(node.body),
     has_docstring |-> node.doclen >= 0,
     base_classes |-> NameIds(node.bases)]

\* one entry per alias of an `import` statement
ImportEntries(node) ==
    [i \in 1..Len(node.names) |->
        [module |-> node.names[i].name, alias |-> node.names[i].asname,
         type |-> "import"]]

FromImportEntry(node) ==
    [module |-> node.name,
     names |-> [i \in 1..Len(node.names) |-> node.names[i].name],
     type |-> "from_import",
     level |-> node.level]

\* f"{node.name}: {ast.get_docstring(node)[:50]}...": the excerpt is kept by
\* its length
DocExcerpt(node) == [name |-> node.name, excerpt |-> Min(node.doclen, 50)]

RECURSIVE CollectFunctions(_)
CollectFunctions(nodes) ==
    IF nodes = <<>> THEN <<>>
    ELSE (IF IsInstance(Head(nodes), "FunctionDef")
          THEN <<FuncInfo(Head(nodes))>> ELSE <<>>)
             \o CollectFunctions(Tail(nodes))

RECURSIVE CollectClasses(_)
CollectClasses(nodes) ==
    IF nodes = <<>> THEN <<>>
    ELSE (IF ~IsInstance(Head(nodes), "FunctionDef")
             /\ IsInstance(Head(nodes), "ClassDef")
          THEN <<ClassInfo(Head(nodes))>> ELSE <<>>)
             \o CollectClasses(Tail(nodes))

RECURSIVE CollectImports(_)
CollectImports(nodes) ==
    IF nodes = <<>> THEN <<>>
    ELSE (CASE IsInstance(Head(nodes), "Import") -> ImportEntries(Head(nodes))
            [] IsInstance(Head(nodes), "ImportFrom") ->
                 <<FromImportEntry(Head(nodes))>>
            [] OTHER -> <<>>) \o CollectImports(Tail(nodes))

RECURSIVE CollectDocstrings(_)
CollectDocstrings(nodes) ==
    IF nodes = <<>> THEN <<>>
    ELSE (IF IsInstance(Head(nodes), "FunctionDef") /\ Head(nodes).doclen >= 0
          THEN <<DocExcerpt(Head(nodes))>> ELSE <<>>)
             \o CollectDocstrings(Tail(nodes))

\* sum of end_lineno - lineno + 1 over the FunctionDef nodes
RECURSIVE SumFunctionLengths(_)
SumFunctionLengths(nodes) ==
    IF nodes = <<>> THEN 0
    ELSE (IF IsInstance(Head(nodes), "FunctionDef")
          THEN Head(nodes).end_lineno - Head(nodes).lineno + 1 ELSE 0)
             + SumFunctionLengths(Tail(nodes))

\* the float sum / len as the fraction num / den; 0.0 without functions
_calculate_avg_function_length(tree) ==
    LET nodes == Walk(<<tree>>)
        n == Len(CollectFunctions(nodes))
    IN IF n > 0 THEN [num |-> SumFunctionLengths(nodes), den |-> n]
       ELSE [num |-> 0, den |-> 1]

RECURSIVE AnyNamedMain(_)
AnyNamedMain(functions) ==
    IF functions = <<>> THEN FALSE
    ELSE Head(functions).name = "main" \/ AnyNamedMain(Tail(functions))

ExtractCountsMut(tree, t) ==
    LET nodes == Walk(<<tree>>)
        functions == CollectFunctions(nodes)
        classes == CollectClasses(nodes)
        imports == CollectImports(nodes)
    IN [functions |-> functions,
        classes |-> classes,
        imports |-> imports,
        docstrings |-> CollectDocstrings(nodes),
        metrics |->
           [line_count |-> LineCount(t),
            function_count |-> Len(functions) - Len(classes),
            class_count |-> Len(classes),
            import_count |-> Len(imports),
            has_main |-> AnyNamedMain(functions),
            has_if_main |-> HasIfMain(t),
            avg_function_length |-> _calculate_avg_function_length(tree)]]

_extract_code_structure(tree, t) ==
    LET nodes == Walk(<<tree>>)
        functions == CollectFunctions(nodes)
        classes == CollectClasses(nodes)
        imports == CollectImports(nodes)
    IN [functions |-> functions,
        classes |-> classes,
        imports |-> imports,
        docstrings |-> CollectDocstrings(nodes),
        metrics |->
           [line_count |-> LineCount(t),
            function_count |-> Len(functions),
            class_count |-> Len(classes),
            import_count |-> Len(imports),
            has_main |-> AnyNamedMain(functions),
            has_if_main |-> HasIfMain(t),
            avg_function_length |-> _calculate_avg_function_length(tree)]]

(***************************************************************************)
(* The style backend (pycodestyle) and _perform_style_check                *)
(***************************************************************************)
\* the largest number of violations the backend reports for a text
ManyViolations == 35

\* how many violations of other rule classes the backend reports for a text
ViolationCount(t) ==
    CASE t = "add_ok" -> 0
      [] t = "add_lint" -> 3
      [] t = "no_funcs" -> 10
      [] t = "private_only" -> 11
      [] t = "messy" -> ManyViolations
      [] t = "syntax_a" -> 1
      [] t = "syntax_b" -> 33
      [] OTHER -> 0

RuleCodes == <<"E231", "E225", "W291", "E302">>

\* one backend result: the tuple (line, column, code, message)
Violation(t, i) ==
    [type |-> "tuple",
     items |-> <<1 + ((i - 1) * LineCount(t)) \div ViolationCount(t), i,
                 RuleCodes[1 + (i % Len(RuleCodes))], "violation">>]

\* a result entry that is no 4-tuple
Malformed == [type |-> "tuple", items |-> <<1, 1, "E901">>]

\* what a text holds of the two rule classes the style guide names, before
\* any option is applied: a line of 90 columns and a line break before a
\* binary operator
LenientFindings(t) ==
    IF t = "add_lint"
    THEN <<[type |-> "tuple",
            items |-> <<5, 80, "E501", "line too long (90 > 79 characters)">>],
           [type |-> "tuple",
            items |-> <<5, 13, "W503",
                        "line break before binary operator">>]>>
    ELSE <<>>

\* ignore=['E501', 'W503'] of style_guide, whose check_files() result is
\* not read
StyleGuideIgnore == {"E501", "W503"}

\* pycodestyle.Checker(tmp_path, file_contents=code) is given no options:
\* it runs with the library's default ignore list
CheckerIgnore ==
    {"E121", "E123", "E126", "E226", "E24", "E704", "W503", "W504"}

RECURSIVE Reported(_, _)
Reported(ignore, findings) ==
    IF findings = <<>> THEN <<>>
    ELSE (IF Head(findings).items[3] \in ignore THEN <<>>
          ELSE <<Head(findings)>>) \o Reported(ignore, Tail(findings))

\* checker.results after check_all(), top to bottom
BackendResults(t) ==
    [i \in 1..ViolationCount(t) |-> Violation(t, i)]
        \o Reported(CheckerIgnore, LenientFindings(t))
        \o (IF t = "syntax_a" THEN <<Malformed>> ELSE <<>>)

\* the message of the exception the backend raises on a text, "" when it
\* raises none
BackendRaises(t) ==
    IF t = "untokenized" THEN "tokenize error" ELSE ""

\* for error in checker.results: if isinstance(error, tuple) and
\* len(error) >= 4: issues.append({...})
RECURSIVE ParseResults(_)
ParseResults(results) ==
    IF results = <<>> THEN <<>>
    ELSE LET error == Head(results)
         IN (IF error.type = "tuple" /\ Len(error.items) >= 4
             THEN <<[line |-> error.items[1], column |-> error.items[2],
                     code |-> error.items[3], message |-> error.items[4]]>>
             ELSE <<>>) \o ParseResults(Tail(results))

base_score == 100
deduction_per_issue == 3
IssuesShown == 10

StyleReportMutScore(issues) ==
    [status |-> "success",
     score |-> base_score - (Len(issues) * deduction_per_issue),
     issue_count |-> Len(issues),
     issues |-> Take(issues, IssuesShown)]

StyleReportMutCount(issues) ==
    [status |-> "success",
     score |-> Max(0, base_score - (Len(issues) * deduction_per_issue)),
     issue_count |-> Len(Take(issues, IssuesShown)),
     issues |-> Take(issues, IssuesShown)]

\* the report built from the parsed issues (the summary string repeats score
\* and count and is left out)
StyleReport(issues) ==
    [status |-> "success",
     score |-> Max(0, base_score - (Len(issues) * deduction_per_issue)),
     issue_count |-> Len(issues),
     issues |-> Take(issues, IssuesShown)]

\* the outcome of a call: exc is the message of the exception that left the
\* call ("" when it returned), value what it returned
Returned(v) == [exc |-> "", value |-> v]
Raised(msg) == [exc |-> msg, value |-> [status |-> "raised"]]

\* whether the file NamedTemporaryFile(delete=False) created still exists
\* when the call is over: tmp.write(code) stands before the try whose
\* finally unlinks the file, so a write that raises leaves it
TempFileLeft(code) == ~IsStr(code)

\* tmp.write(code) raises TypeError unless code is a str
_perform_style_check(code) ==
    IF ~IsStr(code) THEN Raised("write() argument must be str")
    ELSE IF BackendRaises(code.text) # "" THEN Raised(BackendRaises(code.text))
    ELSE Returned(StyleReport(ParseResults(BackendResults(code.text))))

(***************************************************************************)
(* Session state keys (constants.py)                                       *)
(***************************************************************************)
CODE_TO_REVIEW == "code_to_review"
CODE_ANALYSIS == "code_analysis"
CODE_LINE_COUNT == "code_line_count"
STYLE_SCORE == "style_score"
STYLE_ISSUES == "style_issues"
STYLE_ISSUE_COUNT == "style_issue_count"
TEST_RESULTS == "test_results"
SYNTAX_ERROR == "syntax_error"
TEMP_TEST_CODE == "temp:test_code_to_execute"
TEMP_ANALYSIS_TIMESTAMP == "temp:analysis_timestamp"
TEMP_TEST_GENERATION_COMPLETE == "temp:test_generation_complete"
TEMP_FUNCTIONS_TO_TEST == "temp:functions_to_test"
TEMP_PROCESSING_TIMESTAMP == "temp:processing_timestamp"
GRADING_ATTEMPTS == "grading_attempts"
LAST_GRADING_TIME == "last_grading_time"
PAST_FEEDBACK == "past_feedback"
FEEDBACK_PATTERNS == "feedback_patterns"
SCORE_IMPROVEMENT == "score_improvement"
USER_TOTAL_SUBMISSIONS == "user:total_submissions"
USER_LAST_STYLE_SCORE == "user:last_style_score"
USER_LAST_SUBMISSION_TIME == "user:last_submission_time"
USER_LAST_TEST_PASS_RATE == "user:last_test_pass_rate"
USER_PAST_FEEDBACK_CACHE == "user:past_feedback_cache"
USER_LAST_GRADING_REPORT == "user:last_grading_report"

\* "Temporary keys (cleared after each invocation)"
TempKeys == {TEMP_TEST_CODE, TEMP_ANALYSIS_TIMESTAMP,
             TEMP_TEST_GENERATION_COMPLETE, TEMP_FUNCTIONS_TO_TEST,
             TEMP_PROCESSING_TIMESTAMP}

\* the state a new invocation starts with: the temporary keys are gone
ClearTemp(st) == [k \in (DOMAIN st) \ TempKeys |-> st[k]]

\* readings of datetime.now().isoformat()
Clock == {"T1", "T2"}

(***************************************************************************)
(* analyze_code_structure                                                  *)
(***************************************************************************)
\* an empty dict
EmptyDict == [k \in {} |-> TRUE]
EmptyState == EmptyDict

\* a tool call's effect: the session state it leaves and the dict it returns
Effect(st, r) == [state |-> st, ret |-> r]

InvalidCodeMut(code) == ~Truthy(code)

\* if not code or not isinstance(code, str)
InvalidCode(code) == ~Truthy(code) \/ ~IsStr(code)

InputErrorReport ==
    [status |-> "error", message |-> "No code provided or invalid input"]

\* f"Syntax error at line {e.lineno}: {e.msg}"
SyntaxErrorMsg(e) ==
    "Syntax error at line " \o ToString(e.lineno) \o ": " \o e.msg

SyntaxErrorReportMut(e) ==
    [status |-> "error", error_type |-> "syntax",
     message |-> SyntaxErrorMsg(e), line |-> e.lineno, offset |-> e.lineno]

SyntaxErrorReport(e) ==
    [status |-> "error", error_type |-> "syntax",
     message |-> SyntaxErrorMsg(e), line |-> e.lineno, offset |-> e.offset]

\* the handler of every other exception
ParseFailureReport(msg) ==
    [status |-> "error", error_type |-> "parse",
     message |-> "Analysis failed: " \o msg]

AnalysisSummary(analysis) ==
    "Found " \o ToString(analysis.metrics.function_count)
        \o " functions and " \o ToString(analysis.metrics.class_count)
        \o " classes"

analyze_code_structure(code, st, now) ==
    IF InvalidCode(code) THEN Effect(st, InputErrorReport)
    ELSE
      LET st1 == Put(st, CODE_TO_REVIEW, code.text)
      IN IF ~IsStr(code)
         THEN \* code.splitlines() raises AttributeError
              Effect(st1, ParseFailureReport("no attribute 'splitlines'"))
         ELSE
           LET st2 == Put(st1, CODE_LINE_COUNT, LineCount(code.text))
               e == ParseError(code.text)
               analysis ==
                   _extract_code_structure(ParseTree(code.text), code.text)
           IN IF e.raised
              THEN Effect(Put(st2, SYNTAX_ERROR, SyntaxErrorMsg(e)),
                          SyntaxErrorReport(e))
              ELSE Effect(Put(Put(st2, CODE_ANALYSIS, analysis),
                              TEMP_ANALYSIS_TIMESTAMP, now),
                          [status |-> "success", analysis |-> analysis,
                           summary |-> AnalysisSummary(analysis)])

(***************************************************************************)
(* check_code_style                                                        *)
(***************************************************************************)
\* if not code: code = tool_context.state.get(CODE_TO_REVIEW, '')
CodeOrStored(code, st) ==
    IF ~Truthy(code) THEN PyStr(Get(st, CODE_TO_REVIEW, "")) ELSE code

StyleFailureReport(msg) ==
    [status |-> "error", message |-> "Style check failed: " \o msg,
     score |-> 0]

check_code_style(code, st) ==
    LET c == CodeOrStored(code, st)
        r == _perform_style_check(c)
    IN IF ~Truthy(c)
       THEN Effect(st, [status |-> "error",
                        message |-> "No code provided or found in state"])
       ELSE IF r.exc = ""
       THEN Effect(Put(Put(Put(st, STYLE_SCORE, r.value.score),
                           STYLE_ISSUES, r.value.issues),
                       STYLE_ISSUE_COUNT, r.value.issue_count),
                   r.value)
       ELSE Effect(Put(Put(st, STYLE_SCORE, 0), STYLE_ISSUES, <<>>),
                   StyleFailureReport(r.exc))

\* the temporary files a call of check_code_style leaves behind
StyleCheckTempFiles(code, st) ==
    IF Truthy(CodeOrStored(code, st)) /\ TempFileLeft(CodeOrStored(code, st))
    THEN 1 ELSE 0

(***************************************************************************)
(* Python strings and values inside the generated script                   *)
(***************************************************************************)
\* the characters of the identifiers that occur in the model
Chars(name) ==
    CASE name = "add" -> <<"a", "d", "d">>
      [] name = "Sum" -> <<"S", "u", "m">>
      [] name = "subtract" -> <<"s", "u", "b", "t", "r", "a", "c", "t">>
      [] name = "multiply" -> <<"m", "u", "l", "t", "i", "p", "l", "y">>
      [] name = "fibonacci" -> <<"f", "i", "b", "o", "n", "a", "c", "c", "i">>
      [] name = "factorial" -> <<"f", "a", "c", "t", "o", "r", "i", "a", "l">>
      [] name = "is_prime" -> <<"i", "s", "_", "p", "r", "i", "m", "e">>
      [] name = "_helper" -> <<"_", "h", "e", "l", "p", "e", "r">>
      [] name = "_step" -> <<"_", "s", "t", "e", "p">>
      [] name = "main" -> <<"m", "a", "i", "n">>
      [] name = "fetch" -> <<"f", "e", "t", "c", "h">>
      [] name = "show" -> <<"s", "h", "o", "w">>
      [] name = "run" -> <<"r", "u", "n">>
      [] name = "mix" -> <<"m", "i", "x">>
      [] name = "MultiplyAdd" ->
           <<"M", "u", "l", "t", "i", "p", "l", "y", "A", "d", "d">>
      [] name = "prime_factorial" ->
           <<"p", "r", "i", "m", "e", "_", "f", "a", "c", "t", "o", "r", "i",
             "a", "l">>
      [] name = "Calculator" -> <<"C", "a", "l", "c", "u", "l", "a", "t", "o", "r">>
      [] OTHER -> <<>>

UpperCase == <<"A", "B", "C", "D", "E", "F", "G", "H", "I", "J", "K", "L", "M",
               "N", "O", "P", "Q", "R", "S", "T", "U", "V", "W", "X", "Y", "Z">>
LowerCase == <<"a", "b", "c", "d", "e", "f", "g", "h", "i", "j", "k", "l", "m",
               "n", "o", "p", "q", "r", "s", "t", "u", "v", "w", "x", "y", "z">>

LowerChar(ch) ==
    IF \E i \in 1..Len(UpperCase) : UpperCase[i] = ch
    THEN LowerCase[CHOOSE i \in 1..Len(UpperCase) : UpperCase[i] = ch]
    ELSE ch

\* str.lower()
Lower(chars) == [i \in 1..Len(chars) |-> LowerChar(chars[i])]

\* pat in s
Contains(s, pat) ==
    \E i \in 0..(Len(s) - Len(pat)) : SubSeq(s, i + 1, i + Len(pat)) = pat

\* s.startswith(pat)
StartsWith(s, pat) == Len(s) >= Len(pat) /\ SubSeq(s, 1, Len(pat)) = pat

\* Python values: int, bool, str and None
IntV(n) == [ty |-> "int", n |-> n, s |-> ""]
BoolV(b) == [ty |-> "bool", n |-> IF b THEN 1 ELSE 0, s |-> ""]
StrV(s) == [ty |-> "str", n |-> 0, s |-> s]
NoneV == [ty |-> "NoneType", n |-> 0, s |-> ""]

\* a == b: bool is an int (True == 1), a str equals only a str
PyEq(a, b) ==
    CASE a.ty \in {"int", "bool"} /\ b.ty \in {"int", "bool"} -> a.n = b.n
      [] a.ty = "str" /\ b.ty = "str" -> a.s = b.s
      [] a.ty = "NoneType" /\ b.ty = "NoneType" -> TRUE
      [] OTHER -> FALSE

\* str(v)
PyStrOf(v) ==
    CASE v.ty = "int" -> ToString(v.n)
      [] v.ty = "bool" -> (IF v.n = 1 THEN "True" ELSE "False")
      [] v.ty = "str" -> v.s
      [] OTHER -> "None"

\* str(list of ints): "[2, 3]"
RECURSIVE JoinInts(_)
JoinInts(xs) ==
    IF xs = <<>> THEN ""
    ELSE IF Len(xs) = 1 THEN ToString(xs[1])
    ELSE ToString(xs[1]) \o ", " \o JoinInts(Tail(xs))
StrOfList(xs) == "[" \o JoinInts(xs) \o "]"

(***************************************************************************)
(* _generate_test_cases                                                    *)
(***************************************************************************)
\* the expected value of a case that only checks that the call executes
check_execution == StrV("check_execution")

TestCase(input, expected, description) ==
    [input |-> input, expected |-> expected, description |-> description]

CasesPerFunction == 3

\* [1] * n
Ones(n) == [i \in 1..n |-> 1]

GenericCases(args) ==
    IF Len(args) = 0
    THEN <<TestCase(<<>>, check_execution, "No arguments")>>
    ELSE IF Len(args) = 1
    THEN <<TestCase(<<1>>, check_execution, "Single argument"),
           TestCase(<<0>>, check_execution, "Zero input")>>
    ELSE <<TestCase(Ones(Len(args)), check_execution,
                    ToString(Len(args)) \o " arguments")>>

GenerateTestCasesMut(func_name, args) ==
    LET func_lower == Chars(func_name)
        test_cases ==
          IF Contains(func_lower, Chars("add"))
               \/ Contains(func_lower, <<"s", "u", "m">>)
          THEN <<TestCase(<<2, 3>>, IntV(5), "Basic addition"),
                 TestCase(<<0, 0>>, IntV(0), "Adding zeros"),
                 TestCase(<<-1, 1>>, IntV(0), "Positive and negative")>>
          ELSE IF Contains(func_lower, Chars("subtract"))
          THEN <<TestCase(<<5, 3>>, IntV(2), "Basic subtraction"),
                 TestCase(<<0, 0>>, IntV(0), "Subtracting zeros")>>
          ELSE IF Contains(func_lower, Chars("multiply"))
          THEN <<TestCase(<<3, 4>>, IntV(12), "Basic multiplication"),
                 TestCase(<<0, 5>>, IntV(0), "Multiply by zero")>>
          ELSE IF Contains(func_lower, Chars("fibonacci"))
          THEN <<TestCase(<<0>>, IntV(0), "Fibonacci of 0"),
                 TestCase(<<1>>, IntV(1), "Fibonacci of 1"),
                 TestCase(<<5>>, IntV(5), "Fibonacci of 5")>>
          ELSE IF Contains(func_lower, Chars("factorial"))
          THEN <<TestCase(<<0>>, IntV(1), "Factorial of 0"),
                 TestCase(<<5>>, IntV(120), "Factorial of 5")>>
          ELSE IF Contains(func_lower, <<"p", "r", "i", "m", "e">>)
          THEN <<TestCase(<<2>>, BoolV(TRUE), "2 is prime"),
                 TestCase(<<4>>, BoolV(FALSE), "4 is not prime")>>
          ELSE GenericCases(args)
    IN Take(test_cases, CasesPerFunction)

_generate_test_cases(func_name, args) ==
    LET func_lower == Lower(Chars(func_name))
        test_cases ==
          IF Contains(func_lower, Chars("add"))
               \/ Contains(func_lower, <<"s", "u", "m">>)
          THEN <<TestCase(<<2, 3>>, IntV(5), "Basic addition"),
                 TestCase(<<0, 0>>, IntV(0), "Adding zeros"),
                 TestCase(<<-1, 1>>, IntV(0), "Positive and negative")>>
          ELSE IF Contains(func_lower, Chars("subtract"))
          THEN <<TestCase(<<5, 3>>, IntV(2), "Basic subtraction"),
                 TestCase(<<0, 0>>, IntV(0), "Subtracting zeros")>>
          ELSE IF Contains(func_lower, Chars("multiply"))
          THEN <<TestCase(<<3, 4>>, IntV(12), "Basic multiplication"),
                 TestCase(<<0, 5>>, IntV(0), "Multiply by zero")>>
          ELSE IF Contains(func_lower, Chars("fibonacci"))
          THEN <<TestCase(<<0>>, IntV(0), "Fibonacci of 0"),
                 TestCase(<<1>>, IntV(1), "Fibonacci of 1"),
                 TestCase(<<5>>, IntV(5), "Fibonacci of 5")>>
          ELSE IF Contains(func_lower, Chars("factorial"))
          THEN <<TestCase(<<0>>, IntV(1), "Factorial of 0"),
                 TestCase(<<5>>, IntV(120), "Factorial of 5")>>
          ELSE IF Contains(func_lower, <<"p", "r", "i", "m", "e">>)
          THEN <<TestCase(<<2>>, BoolV(TRUE), "2 is prime"),
                 TestCase(<<4>>, BoolV(FALSE), "4 is not prime")>>
          ELSE GenericCases(args)
    IN Take(test_cases, CasesPerFunction)

(***************************************************************************)
(* _generate_executable_test_code.  The script text is kept as the values   *)
(* interpolated into its template: the embedded code, the "# Testing       *)
(* function" sections and one try/except block per test case.  repr() of   *)
(* an int, a bool or a str, read back by the interpreter, is that value.   *)
(***************************************************************************)
Block(func_name, i, test_case) ==
    [function |-> func_name, case |-> i, input |-> test_case.input,
     expected |-> test_case.expected, description |-> test_case.description]

SkippedMut(func_name) == StartsWith(Chars(func_name), <<"_">>)

\* if func_name.startswith('_') or func_name == 'main': continue
Skipped(func_name) ==
    StartsWith(Chars(func_name), <<"_">>) \/ func_name = "main"

\* the functions the loop does not skip, in list order
RECURSIVE Tested(_)
Tested(functions) ==
    IF functions = <<>> THEN <<>>
    ELSE (IF Skipped(Head(functions).name) THEN <<>>
          ELSE <<Head(functions)>>) \o Tested(Tail(functions))

\* for i, test_case in enumerate(test_cases): one block each
BlocksFor(func) ==
    LET test_cases == _generate_test_cases(func.name, func.args)
    IN [i \in 1..Len(test_cases) |-> Block(func.name, i, test_cases[i])]

RECURSIVE AllBlocks(_)
AllBlocks(funcs) ==
    IF funcs = <<>> THEN <<>>
    ELSE BlocksFor(Head(funcs)) \o AllBlocks(Tail(funcs))

BuildStatefulMut(code, functions) ==
    [kind |-> "harness",
     code |-> code,
     sections |-> [i \in 1..Len(Tested(functions)) |->
                      Tested(functions)[i].name],
     blocks |-> IF test_results = <<>> THEN AllBlocks(Tested(functions))
                ELSE <<>>]

_generate_executable_test_code(code, functions) ==
    [kind |-> "harness",
     code |-> code,
     sections |-> [i \in 1..Len(Tested(functions)) |->
                      Tested(functions)[i].name],
     blocks |-> AllBlocks(Tested(functions))]

\* "print('No functions to test')"
PrintScript == [kind |-> "print", code |-> "", sections |-> <<>>,
                blocks |-> <<>>]

(***************************************************************************)
(* Executing the script: one test block, then the summary                  *)
(***************************************************************************)
\* what the call func(*test_input) does
ReturnsV(v) ==
    [how |-> "return", value |-> v, etype |-> "", emsg |-> "",
     is_exception |-> FALSE]
\* it raises an instance of a subclass of Exception
RaisesException(etype, emsg) ==
    [how |-> "raise", value |-> NoneV, etype |-> etype, emsg |-> emsg,
     is_exception |-> TRUE]
\* it raises a BaseException that is no Exception (sys.exit(), exit())
RaisesSystemExit ==
    [how |-> "raise", value |-> NoneV, etype |-> "SystemExit", emsg |-> "1",
     is_exception |-> FALSE]

\* how the body of a tested function behaves
Profiles == {"ok", "wrong", "flaky", "exit"}

BodyOutcome(profile, block) ==
    LET good == IF PyEq(block.expected, check_execution) THEN NoneV
                ELSE block.expected
        bad == IF block.expected.ty \in {"int", "bool"}
               THEN IntV(block.expected.n + 1) ELSE NoneV
    IN CASE profile = "ok" -> ReturnsV(good)
         [] profile = "wrong" -> ReturnsV(bad)
         [] profile = "flaky" ->
              (IF block.case = 1 THEN RaisesException("ValueError", "bad input")
               ELSE ReturnsV(good))
         [] OTHER -> RaisesSystemExit

\* defn: how the embedded code defines the called name at module level
CallOutcome(defn, block) ==
    IF ~defn.defined
    THEN RaisesException("NameError", "name is not defined")
    ELSE IF Len(block.input) # defn.nargs
    THEN RaisesException("TypeError", "wrong number of arguments")
    ELSE BodyOutcome(defn.profile, block)

Defn(defined, nargs, profile) ==
    [defined |-> defined, nargs |-> nargs, profile |-> profile]

RunBlockMut(block, call) ==
    IF call.how = "return"
    THEN IF PyEq(block.expected, check_execution)
         THEN [aborted |-> FALSE, errors |-> <<>>,
               results |-> <<[function |-> block.function,
                              case |-> block.case,
                              passed |-> PyEq(call.value, block.expected),
                              result |-> PyStrOf(call.value),
                              input |-> StrOfList(block.input),
                              execution_only |-> TRUE,
                              description |-> block.description]>>]
         ELSE [aborted |-> FALSE, errors |-> <<>>,
               results |-> <<[function |-> block.function,
                              case |-> block.case,
                              passed |-> PyEq(call.value, block.expected),
                              result |-> PyStrOf(call.value),
                              expected |-> PyStrOf(block.expected),
                              input |-> StrOfList(block.input),
                              description |-> block.description]>>]
    ELSE IF call.is_exception
    THEN \* except Exception as e
         [aborted |-> FALSE,
          results |-> <<[function |-> block.function,
                         case |-> block.case,
                         passed |-> FALSE,
                         error |-> call.emsg,
                         error_type |-> call.etype,
                         input |-> StrOfList(block.input),
                         description |-> block.description]>>,
          errors |-> <<block.function \o " test " \o ToString(block.case)
                          \o ": " \o call.emsg>>]
    ELSE [aborted |-> TRUE, results |-> <<>>, errors |-> <<>>]

\* one try/except block: what it appends to test_results and to
\* execution_errors, and whether the exception leaves the script
RunBlock(block, call) ==
    IF call.how = "return"
    THEN IF PyEq(block.expected, check_execution)
         THEN [aborted |-> FALSE, errors |-> <<>>,
               results |-> <<[function |-> block.function,
                              case |-> block.case,
                              passed |-> TRUE,
                              result |-> PyStrOf(call.value),
                              input |-> StrOfList(block.input),
                              execution_only |-> TRUE,
                              description |-> block.description]>>]
         ELSE [aborted |-> FALSE, errors |-> <<>>,
               results |-> <<[function |-> block.function,
                              case |-> block.case,
                              passed |-> PyEq(call.value, block.expected),
                              result |-> PyStrOf(call.value),
                              expected |-> PyStrOf(block.expected),
                              input |-> StrOfList(block.input),
                              description |-> block.description]>>]
    ELSE IF call.is_exception
    THEN \* except Exception as e
         [aborted |-> FALSE,
          results |-> <<[function |-> block.function,
                         case |-> block.case,
                         passed |-> FALSE,
                         error |-> call.emsg,
                         error_type |-> call.etype,
                         input |-> StrOfList(block.input),
                         description |-> block.description]>>,
          errors |-> <<block.function \o " test " \o ToString(block.case)
                          \o ": " \o call.emsg>>]
    ELSE [aborted |-> TRUE, results |-> <<>>, errors |-> <<>>]

\* r.get('passed', False)
Passed(r) == Get(r, "passed", FALSE)

RECURSIVE CountPassed(_)
CountPassed(rs) ==
    IF rs = <<>> THEN 0
    ELSE (IF Passed(Head(rs)) THEN 1 ELSE 0) + CountPassed(Tail(rs))

RECURSIVE CountNotPassed(_)
CountNotPassed(rs) ==
    IF rs = <<>> THEN 0
    ELSE (IF ~Passed(Head(rs)) THEN 1 ELSE 0) + CountNotPassed(Tail(rs))

RECURSIVE CountErrors(_)
CountErrors(rs) ==
    IF rs = <<>> THEN 0
    ELSE (IF "error" \in DOMAIN Head(rs) THEN 1 ELSE 0) + CountErrors(Tail(rs))

DetailsShown == 10
ErrorsShown == 5

SummaryMut(results, errors) ==
    LET passed == CountPassed(results)
        total == Len(results)
    IN [passed |-> passed,
        failed |-> CountErrors(results),
        total |-> total,
        pass_rate |-> IF total > 0 THEN [num |-> passed * 100, den |-> total]
                      ELSE [num |-> 0, den |-> 1],
        details |-> Take(results, DetailsShown),
        execution_errors |-> Take(errors, ErrorsShown)]

\* the output dict; pass_rate, the float passed / total * 100, is kept as
\* the fraction num / den
Summary(results, errors) ==
    LET passed == CountPassed(results)
        total == Len(results)
    IN [passed |-> passed,
        failed |-> CountNotPassed(results),
        total |-> total,
        pass_rate |-> IF total > 0 THEN [num |-> passed * 100, den |-> total]
                      ELSE [num |-> 100, den |-> 1],
        details |-> Take(results, DetailsShown),
        execution_errors |-> Take(errors, ErrorsShown)]

\* what the executed script wrote to standard output
NoOutput == [kind |-> "none", text |-> "", json |-> [none |-> TRUE]]
TextOutput(text) == [kind |-> "text", text |-> text, json |-> [none |-> TRUE]]
JsonOutput(json) == [kind |-> "json", text |-> "", json |-> json]

(***************************************************************************)
(* generate_and_run_tests                                                  *)
(***************************************************************************)
\* analysis = state.get(CODE_ANALYSIS, {}); analysis.get('functions', [])
StoredFunctions(st) ==
    IF CODE_ANALYSIS \in DOMAIN st THEN st[CODE_ANALYSIS].functions ELSE <<>>

\* len([f for f in functions if not f['name'].startswith('_')
\*      and f['name'] != 'main'])
RECURSIVE PublicCount(_)
PublicCount(functions) ==
    IF functions = <<>> THEN 0
    ELSE (IF ~StartsWith(Chars(Head(functions).name), <<"_">>)
             /\ Head(functions).name # "main" THEN 1 ELSE 0)
             + PublicCount(Tail(functions))

NoTestsResult == [passed |-> 0, failed |-> 0, total |-> 0]

TestFailureResultMut(msg) ==
    [passed |-> 0, failed |-> 0, total |-> 0, error |-> ""]

TestFailureResult(msg) ==
    [passed |-> 0, failed |-> 0, total |-> 0,
     error |-> "Test generation failed: " \o msg]

\* (test_code_length, the length of the script text, is left out of the
\* returned dict)
generate_and_run_tests(code, st) ==
    LET c == CodeOrStored(code, st)
        functions == StoredFunctions(st)
        test_code == _generate_executable_test_code(c.text, functions)
    IN IF ~Truthy(c)
       THEN Effect(st, [status |-> "error",
                        message |-> "No code found to test"])
       ELSE IF functions = <<>>
       THEN Effect(Put(Put(st, TEST_RESULTS, NoTestsResult),
                       TEMP_TEST_CODE, PrintScript),
                   [status |-> "success",
                    message |-> "No functions found to test",
                    functions_to_test |-> 0,
                    test_code_generated |-> TRUE])
       ELSE IF ~IsStr(c)
       THEN \* '\n'.join(test_lines) raises TypeError
            Effect(Put(st, TEST_RESULTS,
                       TestFailureResult("expected str instance")),
                   [status |-> "error",
                    message |-> "Test generation failed: "
                                   \o "expected str instance",
                    test_code_generated |-> FALSE])
       ELSE Effect(Put(Put(Put(st, TEMP_TEST_CODE, test_code),
                           TEMP_TEST_GENERATION_COMPLETE, TRUE),
                       TEMP_FUNCTIONS_TO_TEST, PublicCount(functions)),
                   [status |-> "success",
                    message |-> "Test code generated successfully",
                    functions_to_test |-> Len(functions),
                    test_code_generated |-> TRUE])

(***************************************************************************)
(* What the texts do when the script that embeds them is executed          *)
(***************************************************************************)
\* the body of a function of a text
TextProfile(t, fname) ==
    CASE t = "messy" /\ fname = "fibonacci" -> "wrong"
      [] OTHER -> "ok"

\* the module-level definition of fname in the body of a text: the last
\* def or async def of that name
RECURSIVE LastDef(_, _, _, _)
LastDef(t, body, fname, found) ==
    IF body = <<>> THEN found
    ELSE LastDef(t, Tail(body), fname,
                 IF Head(body).kind \in {"FunctionDef", "AsyncFunctionDef"}
                    /\ Head(body).name = fname
                 THEN Defn(TRUE, Len(Head(body).args), TextProfile(t, fname))
                 ELSE found)

ModuleDefn(t, fname) ==
    LastDef(t, ParseTree(t).body, fname, Defn(FALSE, 0, "ok"))

RECURSIVE RunAll(_, _, _, _)
RunAll(blocks, t, results, errors) ==
    IF blocks = <<>> THEN JsonOutput(Summary(results, errors))
    ELSE LET b == Head(blocks)
             r == RunBlock(b, CallOutcome(ModuleDefn(t, b.function), b))
         IN IF r.aborted THEN NoOutput
            ELSE RunAll(Tail(blocks), t, results \o r.results,
                        errors \o r.errors)

\* the code executor runs the stored script; a script that embeds a text
\* with a syntax error does not compile
ExecuteScript(script) ==
    IF script.kind = "print" THEN TextOutput("No functions to test")
    ELSE IF ParseError(script.code).raised THEN NoOutput
    ELSE RunAll(script.blocks, script.code, <<>>, <<>>)

(***************************************************************************)
(* The feedback tools: search_past_feedback, update_grading_progress and   *)
(* save_grading_report                                                     *)
(***************************************************************************)
\* what the memory service does with the searches of one call: search_memory
\* raises (the cached feedback is used, as when the context has no
\* search_memory), no memory matches, or every query returns the remembered
\* review
MemoryAnswers == {"raises", "nothing", "review"}

RememberedReview == "Style improved"
ReviewChars ==
    <<"S", "t", "y", "l", "e", " ", "i", "m", "p", "r", "o", "v", "e", "d">>
MemoryChars(text) == IF text = RememberedReview THEN ReviewChars ELSE <<>>

\* search_result.memories
Memories(answer) == IF answer = "review" THEN <<RememberedReview>> ELSE <<>>

\* the three searches of a call
queries == <<"code review feedback", "common issues", "improvements">>

MemoriesPerQuery == 5
FeedbackShown == 3

EmptyPatterns ==
    [common_issues |-> <<>>, improvements |-> <<>>, strengths |-> <<>>]

\* one memory: its text is collected and its patterns extracted
AddMemory(acc, text) ==
    LET low == Lower(MemoryChars(text))
        If(found, label) == IF found THEN <<label>> ELSE <<>>
    IN [feedback |-> Append(acc.feedback, text),
        patterns |->
          [common_issues |-> acc.patterns.common_issues
               \o If(Contains(low, <<"s", "t", "y", "l", "e">>),
                     "style compliance"),
           improvements |-> acc.patterns.improvements
               \o If(Contains(low, <<"i", "m", "p", "r", "o", "v", "e", "d">>),
                     "showing improvement"),
           strengths |-> acc.patterns.strengths
               \o If(Contains(low, <<"e", "x", "c", "e", "l", "l", "e", "n",
                                     "t">>),
                     "consistent quality")]]

RECURSIVE AddMemories(_, _)
AddMemories(acc, memories) ==
    IF memories = <<>> THEN acc
    ELSE AddMemories(AddMemory(acc, Head(memories)), Tail(memories))

\* for query in queries: ... for memory in search_result.memories[:5]
RECURSIVE SearchAll(_, _, _)
SearchAll(qs, answer, acc) ==
    IF qs = <<>> THEN acc
    ELSE SearchAll(Tail(qs), answer,
                   AddMemories(acc, Take(Memories(answer), MemoriesPerQuery)))

\* sep.join(texts)
RECURSIVE Join(_, _)
Join(texts, sep) ==
    IF texts = <<>> THEN ""
    ELSE IF Len(texts) = 1 THEN Head(texts)
    ELSE Head(texts) \o sep \o Join(Tail(texts), sep)

search_past_feedback(st, answer) ==
    LET found == SearchAll(queries, answer,
                           [feedback |-> <<>>, patterns |-> EmptyPatterns])
        cached_feedback == Get(st, USER_PAST_FEEDBACK_CACHE, <<>>)
    IN IF answer # "raises"
       THEN Effect(Put(Put(st, PAST_FEEDBACK, found.feedback),
                       FEEDBACK_PATTERNS, found.patterns),
                   [status |-> "success", feedback_found |-> TRUE,
                    count |-> Len(found.feedback),
                    summary |-> IF found.feedback # <<>>
                                THEN Join(Take(found.feedback, FeedbackShown),
                                          " | ")
                                ELSE "No feedback",
                    patterns |-> found.patterns])
       ELSE IF cached_feedback # <<>>
       THEN Effect(Put(st, PAST_FEEDBACK, cached_feedback),
                   [status |-> "success", feedback_found |-> TRUE,
                    count |-> Len(cached_feedback),
                    summary |-> "Using cached feedback"])
       ELSE Effect(Put(st, PAST_FEEDBACK, <<>>),
                   [status |-> "success", feedback_found |-> FALSE,
                    message |-> "No past feedback available - this appears "
                                   \o "to be a first submission"])

\* (passed / total) * 100, kept as the fraction it is computed from
PassRate(passed, total) == [times_100 |-> passed * 100, over |-> total]

update_grading_progress(st, now) ==
    LET attempts == Get(st, GRADING_ATTEMPTS, 0) + 1
        lifetime_submissions == Get(st, USER_TOTAL_SUBMISSIONS, 0) + 1
        current_style_score == Get(st, STYLE_SCORE, 0)
        last_style_score == Get(st, USER_LAST_STYLE_SCORE, 0)
        score_improvement == current_style_score - last_style_score
        results == Get(st, TEST_RESULTS, NoTestsResult)
        st1 == Put(Put(Put(Put(Put(Put(Put(st,
                   TEMP_PROCESSING_TIMESTAMP, now),
                   GRADING_ATTEMPTS, attempts),
                   LAST_GRADING_TIME, now),
                   USER_TOTAL_SUBMISSIONS, lifetime_submissions),
                   USER_LAST_SUBMISSION_TIME, now),
                   USER_LAST_STYLE_SCORE, current_style_score),
                   SCORE_IMPROVEMENT, score_improvement)
        st2 == IF results.total > 0
               THEN Put(st1, USER_LAST_TEST_PASS_RATE,
                        PassRate(results.passed, results.total))
               ELSE st1
    IN Effect(st2,
              [status |-> "success",
               session_attempts |-> attempts,
               lifetime_submissions |-> lifetime_submissions,
               timestamp |-> now,
               improvement |->
                 [style_score_change |-> score_improvement,
                  direction |-> IF score_improvement > 0 THEN "improved"
                                ELSE "declined"],
               summary |-> "Attempt #" \o ToString(attempts)
                   \o " recorded, " \o ToString(lifetime_submissions)
                   \o " total submissions"])

\* what the tool context offers for saving: no save_artifact at all, a
\* service that saves, or a service whose first or second save raises
ArtifactServices == {"absent", "saves", "first_fails", "second_fails"}

NoArtifacts == [f \in {} |-> 0]
NoReport == [timestamp |-> "none"]

\* save_artifact(filename, artifact): a new version under that filename
SaveArtifact(arts, filename) == Put(arts, filename, Get(arts, filename, 0) + 1)

\* f"grading_report_{timestamp.replace(':', '-')}.json"; the clock readings
\* of the model hold no ':'
ReportFilename(timestamp) == "grading_report_" \o timestamp \o ".json"
LatestFilename == "latest_grading_report.json"

\* hashlib.md5(code.encode()).hexdigest(): one digest per text
Md5(code) == "md5:" \o code

ReportIssuesShown == 5

\* the report dict of save_grading_report
GradingReport(feedback_text, st, now) ==
    LET code == Get(st, CODE_TO_REVIEW, "")
    IN [timestamp |-> now,
        grading_attempt |-> Get(st, GRADING_ATTEMPTS, 1),
        code |-> [content |-> code,
                  line_count |-> IF code = "" THEN 0 ELSE LineCount(code),
                  hash |-> Md5(code)],
        analysis |-> Get(st, CODE_ANALYSIS, EmptyDict),
        style |-> [score |-> Get(st, STYLE_SCORE, 0),
                   issues |-> Take(Get(st, STYLE_ISSUES, <<>>),
                                   ReportIssuesShown)],
        tests |-> Get(st, TEST_RESULTS, EmptyDict),
        feedback |-> feedback_text,
        improvements |->
          [score_change |-> Get(st, SCORE_IMPROVEMENT, 0),
           from_last_score |-> Get(st, USER_LAST_STYLE_SCORE, 0)]]

SaveFailureReport(msg) ==
    [status |-> "error", message |-> "Report save error: " \o msg,
     artifact_saved |-> FALSE]

\* the effect of save_grading_report on the session state and on the
\* artifact service (the length of the JSON text, size, is left out of the
\* returned dict)
save_grading_report(feedback_text, st, arts, now, service) ==
    LET rep == GradingReport(feedback_text, st, now)
        filename == ReportFilename(now)
        first == SaveArtifact(arts, filename)
    IN CASE service = "absent" ->
              [state |-> Put(st, USER_LAST_GRADING_REPORT, rep),
               artifacts |-> arts, report |-> rep,
               ret |-> [status |-> "success", artifact_saved |-> FALSE,
                        message |-> "Report saved to state only"]]
         [] service = "first_fails" ->
              [state |-> st, artifacts |-> arts, report |-> rep,
               ret |-> SaveFailureReport("save_artifact failed")]
         [] service = "second_fails" ->
              [state |-> st, artifacts |-> first, report |-> rep,
               ret |-> SaveFailureReport("save_artifact failed")]
         [] OTHER ->
              [state |-> st,
               artifacts |-> SaveArtifact(first, LatestFilename),
               report |-> rep,
               ret |-> [status |-> "success", artifact_saved |-> TRUE,
                        filename |-> filename,
                        version |-> Get(arts, filename, 0)]]

(***************************************************************************)
(* The session: the review pipeline (agent.py) calls the tools on one      *)
(* session state                                                           *)
(***************************************************************************)
svars == <<state, pc, pending, nsub, ret, last, ran, outcome, stdout,
           tmp_files, artifacts, report>>
hvars == <<hfunctions, hbehaviour, hscript, hpc, hpos, test_results,
           execution_errors, output>>
cvars == <<tasks>>
vars == <<state, pc, pending, nsub, ret, last, ran, outcome, stdout,
          tmp_files, artifacts, report, tasks, hfunctions, hbehaviour, hscript, hpc, hpos, test_results,
          execution_errors, output>>

\* the two calls that run concurrently on one session state
TaskIds == {"A", "B"}

\* submissions per session explored
MaxSubmissions == 4

NoReturn == [status |-> "none"]
Call(tool, code) == [tool |-> tool, code |-> code]

SessionInit ==
    /\ state = EmptyState
    /\ pc = "idle"
    /\ pending = PyNone
    /\ nsub = 0
    /\ ret = NoReturn
    /\ last = Call("none", PyNone)
    /\ ran = {}
    /\ outcome = "none"
    /\ stdout = NoOutput
    /\ tmp_files = 0
    /\ artifacts = NoArtifacts
    /\ report = NoReport

HarnessIdle ==
    /\ hfunctions = <<>>
    /\ hbehaviour = <<>>
    /\ hscript = PrintScript
    /\ hpc = "off"
    /\ hpos = 0
    /\ test_results = <<>>
    /\ execution_errors = <<>>
    /\ output = NoOutput

\* no concurrent call has started
NoTasks == [t \in TaskIds |-> [pc |-> "idle", code |-> PyNone,
                              ret |-> NoReturn]]

Init == SessionInit /\ HarnessIdle /\ tasks = NoTasks

sub_agentsMut ==
    <<"StyleChecker", "CodeAnalyzer", "TestRunner", "FeedbackSynthesizer">>

\* sub_agents of code_review_pipeline, in the order the SequentialAgent runs
\* them
sub_agents ==
    <<"CodeAnalyzer", "StyleChecker", "TestRunner", "FeedbackSynthesizer">>

\* the sub-agent that runs after sub-agent a; after the last one the
\* pipeline is over
NextAgent(a) ==
    LET i == CHOOSE k \in 1..Len(sub_agents) : sub_agents[k] = a
    IN IF i < Len(sub_agents) THEN sub_agents[i + 1] ELSE "idle"

\* the user submits code: a new invocation of the pipeline
Submit(c) ==
    /\ pc = "idle"
    /\ nsub < MaxSubmissions
    /\ nsub' = nsub + 1
    /\ pending' = c
    /\ state' = ClearTemp(state)
    /\ pc' = sub_agents[1]
    /\ ret' = NoReturn
    /\ last' = Call("submit", c)
    /\ ran' = {}
    /\ outcome' = "none"
    /\ stdout' = NoOutput
    /\ report' = NoReport
    /\ UNCHANGED <<hvars, cvars, tmp_files, artifacts>>

AnalysisOutcome(r) ==
    IF r.status = "success" THEN "success"
    ELSE IF "error_type" \in DOMAIN r THEN r.error_type ELSE "input"

\* first sub-agent: CodeAnalyzer calls analyze_code_structure
CodeAnalyzer ==
    /\ pc = "CodeAnalyzer"
    /\ \E now \in Clock :
         LET e == analyze_code_structure(pending, state, now)
         IN /\ state' = e.state
            /\ ret' = e.ret
            /\ outcome' = AnalysisOutcome(e.ret)
    /\ last' = Call("analyze_code_structure", pending)
    /\ ran' = ran \cup {"analyze_code_structure"}
    /\ pc' = NextAgent("CodeAnalyzer")
    /\ UNCHANGED <<pending, nsub, stdout>>
    /\ UNCHANGED <<hvars, cvars, tmp_files, artifacts, report>>

\* the code argument a later sub-agent passes: the empty string (the tool
\* then reads the code from state) or the submitted code
StageArgs == {PyStr(""), pending}

\* second sub-agent: StyleChecker calls check_code_style
StyleChecker ==
    /\ pc = "StyleChecker"
    /\ \E c \in StageArgs :
         LET e == check_code_style(c, state)
         IN /\ state' = e.state
            /\ ret' = e.ret
            /\ last' = Call("check_code_style", c)
            /\ tmp_files' = tmp_files + StyleCheckTempFiles(c, state)
    /\ ran' = ran \cup {"check_code_style"}
    /\ pc' = NextAgent("StyleChecker")
    /\ UNCHANGED <<pending, nsub, outcome, stdout>>
    /\ UNCHANGED <<hvars, cvars, artifacts, report>>

\* third sub-agent: TestRunner generates the test script with
\* generate_tests_tool
TestRunner ==
    /\ pc = "TestRunner"
    /\ \E c \in StageArgs :
         LET e == generate_and_run_tests(c, state)
         IN /\ state' = e.state
            /\ ret' = e.ret
            /\ last' = Call("generate_and_run_tests", c)
            /\ pc' = IF TEMP_TEST_CODE \in DOMAIN e.state THEN "CodeExecutor"
                     ELSE NextAgent("TestRunner")
    /\ ran' = ran \cup {"generate_and_run_tests"}
    /\ UNCHANGED <<pending, nsub, outcome, stdout>>
    /\ UNCHANGED <<hvars, cvars, tmp_files, artifacts, report>>

\* ... and its code executor runs the stored script
CodeExecutor ==
    /\ pc = "CodeExecutor"
    /\ stdout' = ExecuteScript(state[TEMP_TEST_CODE])
    /\ last' = Call("code_executor", PyNone)
    /\ pc' = NextAgent("TestRunner")
    /\ UNCHANGED <<state, pending, nsub, ret, ran, outcome>>
    /\ UNCHANGED <<hvars, cvars, tmp_files, artifacts, report>>

\* the workflow of the last sub-agent: the three tool calls its instruction
\* prescribes, in that order
workflow ==
    <<"search_past_feedback", "update_grading_progress",
      "save_grading_report">>

\* where the feedback synthesizer stands before workflow step i
AtStep(i) ==
    IF i = 1 THEN "FeedbackSynthesizer"
    ELSE "FeedbackSynthesizer." \o workflow[i]

AfterStep(i) ==
    IF i < Len(workflow) THEN AtStep(i + 1)
    ELSE NextAgent("FeedbackSynthesizer")

\* the feedback texts the synthesizer passes to save_grading_report
FeedbackTexts == {"Well done"}

\* the surroundings of the feedback tools: what the memory service answers,
\* what the clock reads and what the artifact service does
Surroundings(answers, clock, services) ==
    [answers |-> answers, clock |-> clock, services |-> services]

\* every behaviour of the services, at any time
AnySurroundings == Surroundings(MemoryAnswers, Clock, ArtifactServices)

\* no memory service is configured and the artifact service saves
PlainSurroundings == Surroundings({"raises"}, {"T1"}, {"saves"})

SearchPastFeedback(env) ==
    /\ pc = AtStep(1)
    /\ \E answer \in env.answers :
         LET e == search_past_feedback(state, answer)
         IN /\ state' = e.state
            /\ ret' = e.ret
    /\ last' = Call(workflow[1], PyNone)
    /\ pc' = AfterStep(1)
    /\ UNCHANGED <<pending, nsub, ran, outcome, stdout>>
    /\ UNCHANGED <<hvars, cvars, tmp_files, artifacts, report>>

UpdateGradingProgress(env) ==
    /\ pc = AtStep(2)
    /\ \E now \in env.clock :
         LET e == update_grading_progress(state, now)
         IN /\ state' = e.state
            /\ ret' = e.ret
    /\ last' = Call(workflow[2], PyNone)
    /\ pc' = AfterStep(2)
    /\ UNCHANGED <<pending, nsub, ran, outcome, stdout>>
    /\ UNCHANGED <<hvars, cvars, tmp_files, artifacts, report>>

SaveGradingReport(env) ==
    /\ pc = AtStep(3)
    /\ \E now \in env.clock, service \in env.services,
          feedback_text \in FeedbackTexts :
         LET e == save_grading_report(feedback_text, state, artifacts, now,
                                      service)
         IN /\ state' = e.state
            /\ artifacts' = e.artifacts
            /\ report' = e.report
            /\ ret' = e.ret
    /\ last' = Call(workflow[3], PyNone)
    /\ pc' = AfterStep(3)
    /\ UNCHANGED <<pending, nsub, ran, outcome, stdout>>
    /\ UNCHANGED <<hvars, cvars, tmp_files>>

\* last sub-agent; after its workflow the pipeline is done
FeedbackSynthesizer(env) ==
    \/ SearchPastFeedback(env)
    \/ UpdateGradingProgress(env)
    \/ SaveGradingReport(env)

Next ==
    \/ \E c \in CodeArgs : Submit(c)
    \/ CodeAnalyzer
    \/ StyleChecker
    \/ TestRunner
    \/ CodeExecutor
    \/ FeedbackSynthesizer(PlainSurroundings)

Spec == Init /\ [][Next]_vars

(***************************************************************************)
(* Concurrent calls of analyze_code_structure on one session state.  The   *)
(* event loop runs a call until its next await: the await of ast.parse     *)
(* and the await of _extract_code_structure are the only points where the  *)
(* other call can run.                                                     *)
(***************************************************************************)
\* the call starts: it validates its input, stores the code and its line
\* count and awaits ast.parse
StartAnalysis(t, code) ==
    /\ tasks[t].pc = "idle"
    /\ IF InvalidCode(code)
       THEN /\ tasks' = [tasks EXCEPT ![t] = [pc |-> "done", code |-> code,
                                              ret |-> InputErrorReport]]
            /\ UNCHANGED state
       ELSE /\ tasks' = [tasks EXCEPT ![t] = [pc |-> "parse", code |-> code,
                                              ret |-> NoReturn]]
            /\ state' = Put(Put(state, CODE_TO_REVIEW, code.text),
                            CODE_LINE_COUNT, LineCount(code.text))
    /\ UNCHANGED <<pc, pending, nsub, ret, last, ran, outcome, stdout,
                   tmp_files, artifacts, report>>
    /\ UNCHANGED hvars

\* ast.parse is over: a SyntaxError is stored and reported, otherwise the
\* call awaits _extract_code_structure
Parsed(t) ==
    /\ tasks[t].pc = "parse"
    /\ LET e == ParseError(tasks[t].code.text)
       IN IF e.raised
          THEN /\ state' = Put(state, SYNTAX_ERROR, SyntaxErrorMsg(e))
               /\ tasks' = [tasks EXCEPT ![t].pc = "done",
                                         ![t].ret = SyntaxErrorReport(e)]
          ELSE /\ tasks' = [tasks EXCEPT ![t].pc = "extract"]
               /\ UNCHANGED state
    /\ UNCHANGED <<pc, pending, nsub, ret, last, ran, outcome, stdout,
                   tmp_files, artifacts, report>>
    /\ UNCHANGED hvars

\* _extract_code_structure is over: the analysis and the timestamp are
\* stored and the call returns
Extracted(t) ==
    /\ tasks[t].pc = "extract"
    /\ \E now \in Clock :
         LET text == tasks[t].code.text
             analysis == _extract_code_structure(ParseTree(text), text)
         IN /\ state' = Put(Put(state, CODE_ANALYSIS, analysis),
                            TEMP_ANALYSIS_TIMESTAMP, now)
            /\ tasks' = [tasks EXCEPT
                   ![t].pc = "done",
                   ![t].ret = [status |-> "success", analysis |-> analysis,
                               summary |-> AnalysisSummary(analysis)]]
    /\ UNCHANGED <<pc, pending, nsub, ret, last, ran, outcome, stdout,
                   tmp_files, artifacts, report>>
    /\ UNCHANGED hvars

NextConcurrent ==
    \/ \E t \in TaskIds, code \in CodeArgs : StartAnalysis(t, code)
    \/ \E t \in TaskIds : Parsed(t)
    \/ \E t \in TaskIds : Extracted(t)

SpecConcurrent == Init /\ [][NextConcurrent]_vars

(***************************************************************************)
(* The session with every behaviour of the memory and artifact services,   *)
(* over fewer submissions                                                  *)
(***************************************************************************)
MaxRounds == 2

\* the code submitted in these sessions
GradedCode ==
    {PyStr("add_ok"), PyStr("add_lint"), PyStr("messy"), PyStr("syntax_a")}

GradedSubmission(c) == nsub < MaxRounds /\ Submit(c)

NextGrading ==
    \/ \E c \in GradedCode : GradedSubmission(c)
    \/ CodeAnalyzer
    \/ StyleChecker
    \/ TestRunner
    \/ CodeExecutor
    \/ FeedbackSynthesizer(AnySurroundings)

SpecGrading == Init /\ [][NextGrading]_vars

(***************************************************************************)
(* The harness builder on arbitrary function lists, and the execution of   *)
(* the emitted script block by block                                       *)
(***************************************************************************)
\* functions per list
MaxFuncs == 2

\* an entry of analysis['functions']
Info(name, args) ==
    [name |-> name, args |-> args, lineno |-> 1, has_docstring |-> FALSE,
     is_async |-> FALSE, decorators |-> <<>>]

HarnessInfos ==
    {Info("add", <<"a", "b">>), Info("Sum", <<"xs">>),
     Info("is_prime", <<"n">>), Info("show", <<"x">>),
     Info("mix", <<"a", "b", "c">>), Info("_helper", <<"x">>),
     Info("main", <<>>), Info("MultiplyAdd", <<"a", "b">>),
     Info("prime_factorial", <<"n">>)}

FunctionLists == UNION {[1..n -> HarnessInfos] : n \in 0..MaxFuncs}

\* the text that defines the listed functions
HarnessText == "submitted"

HarnessInit ==
    /\ hfunctions \in FunctionLists
    /\ hbehaviour \in UNION {[1..n -> Profiles] : n \in 0..MaxFuncs}
    /\ Len(hbehaviour) = Len(hfunctions)
    /\ hscript = PrintScript
    /\ hpc = "input"
    /\ hpos = 0
    /\ test_results = <<>>
    /\ execution_errors = <<>>
    /\ output = NoOutput

HInit == SessionInit /\ HarnessInit /\ tasks = NoTasks

\* _generate_executable_test_code(code, functions)
Build ==
    /\ hpc = "input"
    /\ hscript' = _generate_executable_test_code(HarnessText, hfunctions)
    /\ hpc' = "built"
    /\ UNCHANGED <<hfunctions, hbehaviour, hpos, test_results,
                   execution_errors, output>>
    /\ UNCHANGED <<svars, cvars>>

\* the script starts: test_results = [], execution_errors = [], then the
\* embedded code defines the functions
StartScript ==
    /\ hpc = "built"
    /\ test_results' = <<>>
    /\ execution_errors' = <<>>
    /\ hpos' = 1
    /\ hpc' = "tests"
    /\ UNCHANGED <<hfunctions, hbehaviour, hscript, output>>
    /\ UNCHANGED <<svars, cvars>>

\* a later def of a name replaces an earlier one
HarnessDefn(fname) ==
    LET idx == {i \in 1..Len(hfunctions) : hfunctions[i].name = fname}
        i == CHOOSE j \in idx : \A k \in idx : k <= j
    IN IF idx = {} THEN Defn(FALSE, 0, "ok")
       ELSE Defn(TRUE, Len(hfunctions[i].args), hbehaviour[i])

\* the next try/except block of the script
RunCase ==
    /\ hpc = "tests"
    /\ hpos <= Len(hscript.blocks)
    /\ LET b == hscript.blocks[hpos]
           r == RunBlock(b, CallOutcome(HarnessDefn(b.function), b))
       IN /\ test_results' = test_results \o r.results
          /\ execution_errors' = execution_errors \o r.errors
          /\ hpc' = IF r.aborted THEN "aborted" ELSE "tests"
          /\ hpos' = IF r.aborted THEN hpos ELSE hpos + 1
    /\ UNCHANGED <<hfunctions, hbehaviour, hscript, output>>
    /\ UNCHANGED <<svars, cvars>>

\* "# Calculate summary" ... print(json.dumps(output, indent=2))
Summarize ==
    /\ hpc = "tests"
    /\ hpos > Len(hscript.blocks)
    /\ output' = JsonOutput(Summary(test_results, execution_errors))
    /\ hpc' = "done"
    /\ UNCHANGED <<hfunctions, hbehaviour, hscript, hpos, test_results,
                   execution_errors>>
    /\ UNCHANGED <<svars, cvars>>

\* a second call of _generate_executable_test_code with the same arguments,
\* after the first script has run
Rebuild ==
    /\ hpc = "done"
    /\ hscript' = _generate_executable_test_code(HarnessText, hfunctions)
    /\ hpc' = "rebuilt"
    /\ UNCHANGED <<hfunctions, hbehaviour, hpos, test_results,
                   execution_errors, output>>
    /\ UNCHANGED <<svars, cvars>>

HNext == Build \/ StartScript \/ RunCase \/ Summarize \/ Rebuild

SpecHarness == HInit /\ [][HNext]_vars

(***************************************************************************)
(* Properties of the style check (Spec)                                    *)
(***************************************************************************)
\* the text a check_code_style call checked: its argument, or the stored
\* code when the argument is empty
CheckedText ==
    IF Truthy(last.code) THEN last.code.text
    ELSE Get(state, CODE_TO_REVIEW, "")

\* the violations the backend found in a text: its well-formed results
RECURSIVE FoundIn(_)
FoundIn(results) ==
    IF results = <<>> THEN <<>>
    ELSE (IF Len(Head(results).items) >= 4 THEN <<Head(results).items>>
          ELSE <<>>) \o FoundIn(Tail(results))

Found == FoundIn(BackendResults(CheckedText))

LinearScore(n) == IF 100 - 3 * n > 0 THEN 100 - 3 * n ELSE 0

C3_CountUntruncated ==
    (last.tool = "check_code_style" /\ ret.status = "success") =>
        /\ ret.issue_count = Len(Found)
        /\ Len(ret.issues) = Min(10, ret.issue_count)
        /\ \A i \in 1..Len(ret.issues) :
              /\ ret.issues[i].line = Found[i][1]
              /\ ret.issues[i].column = Found[i][2]
              /\ ret.issues[i].code = Found[i][3]
              /\ ret.issues[i].message = Found[i][4]
        /\ ret.score = LinearScore(Len(Found))

\* a report that lists 10 of more than 10 violations
C3_Witness ==
    /\ last.tool = "check_code_style"
    /\ ret.status = "success"
    /\ ret.issue_count > 10
    /\ Len(ret.issues) = 10
    /\ ret.score > 0

\* C4: if the style backend raises during check_code_style, the call
\* returns a report with score 0, an empty issue list and the error message
\* in its message field.
C4_BackendFailureReport ==
    (last.tool = "check_code_style" /\ BackendRaises(CheckedText) # "") =>
        /\ ret.status = "error"
        /\ "score" \in DOMAIN ret /\ ret.score = 0
        /\ "message" \in DOMAIN ret
        /\ ret.message = "Style check failed: " \o BackendRaises(CheckedText)
        /\ "issues" \in DOMAIN ret /\ ret.issues = <<>>

(***************************************************************************)
(* Properties of the structure analysis and of the pipeline (Spec)         *)
(***************************************************************************)
\* C1: if analyze_code_structure fails with a syntax error, neither the
\* style check nor test generation runs for that submission; the pipeline
\* ends with the structured syntax error as its result.
C1_SyntaxErrorEndsPipeline ==
    outcome = "syntax" =>
        /\ "check_code_style" \notin ran
        /\ "generate_and_run_tests" \notin ran
        /\ "error_type" \in DOMAIN ret /\ ret.error_type = "syntax"

\* C9: when the parser raises a syntax error, analyze_code_structure returns
\* an error with exactly the parser's line and offset, returns no analysis
\* and stores none.
C9_SyntaxErrorPosition ==
    [][(last'.tool = "analyze_code_structure"
          /\ ParseError(last'.code.text).raised) =>
         /\ ret'.status = "error"
         /\ "line" \in DOMAIN ret' /\ "offset" \in DOMAIN ret'
         /\ ret'.line = ParseError(last'.code.text).lineno
         /\ ret'.offset = ParseError(last'.code.text).offset
         /\ "analysis" \notin DOMAIN ret'
         /\ (CODE_ANALYSIS \in DOMAIN state') = (CODE_ANALYSIS \in DOMAIN state)
         /\ CODE_ANALYSIS \in DOMAIN state =>
               state'[CODE_ANALYSIS] = state[CODE_ANALYSIS]]_vars

\* a syntax error at line 3, offset 7 was reported in a session that holds an
\* earlier analysis
C9_Witness ==
    /\ last.tool = "analyze_code_structure"
    /\ ParseError(last.code.text).raised
    /\ "line" \in DOMAIN ret /\ ret.line = 3 /\ ret.offset = 7
    /\ CODE_ANALYSIS \in DOMAIN state

\* C10: analyze_code_structure called with an empty or non-string source
\* returns an input error without analysis, and leaves every session-state
\* key as it was.
C10_InputErrorNoEffect ==
    [][(last'.tool = "analyze_code_structure"
          /\ (last'.code.py # "str" \/ last'.code.text = "")) =>
         /\ ret'.status = "error"
         /\ ret'.message = "No code provided or invalid input"
         /\ "analysis" \notin DOMAIN ret'
         /\ state' = state]_vars

\* a non-string argument was rejected in a session that holds earlier results
C10_Witness ==
    /\ last.tool = "analyze_code_structure"
    /\ last.code.py = "int"
    /\ ret.status = "error"
    /\ CODE_ANALYSIS \in DOMAIN state
    /\ STYLE_SCORE \in DOMAIN state

\* the functions of the stored analysis that are neither private nor main
StoredPublic ==
    {i \in 1..Len(StoredFunctions(state)) :
        /\ Chars(StoredFunctions(state)[i].name)[1] # "_"
        /\ StoredFunctions(state)[i].name # "main"}

\* C8: when the analysed source has no public functions (or no functions at
\* all), the executed script of the test stage reports JSON with total = 0
\* and pass_rate = 100.
C8_NoPublicFunctions ==
    (last.tool = "code_executor" /\ outcome = "success" /\ StoredPublic = {})
        => /\ stdout.kind = "json"
           /\ stdout.json.total = 0
           /\ stdout.json.pass_rate.num = 100 * stdout.json.pass_rate.den

(***************************************************************************)
(* Properties of the generated script (SpecHarness)                        *)
(***************************************************************************)
\* C5: the JSON an executed harness prints has passed + failed = total,
\* total the number of recorded outcomes, and pass_rate = 100 when total = 0.
C5_Totals ==
    output.kind = "json" =>
        /\ output.json.passed + output.json.failed = output.json.total
        /\ output.json.total = Len(test_results)
        /\ output.json.total = 0 =>
              output.json.pass_rate.num = 100 * output.json.pass_rate.den

\* a summary of passed cases, a case that returned the wrong value and none
\* that raised
C5_Witness ==
    /\ output.kind = "json"
    /\ output.json.passed > 0
    /\ output.json.failed > 0
    /\ execution_errors = <<>>

\* block i of the script raised when it was executed
RaisedAt(i) ==
    CallOutcome(HarnessDefn(hscript.blocks[i].function),
                hscript.blocks[i]).how = "raise"

\* C6: a test case whose call raises is recorded as one failed outcome with
\* the exception's message and kind; the later cases still run and are
\* recorded and the script still prints its summary: no raising case aborts
\* the script.
C6_Isolation ==
    /\ hpc # "aborted"
    /\ hpc \in {"tests", "done"} =>
          /\ Len(test_results) = hpos - 1
          /\ \A i \in 1..Len(test_results) :
                /\ test_results[i].function = hscript.blocks[i].function
                /\ test_results[i].case = hscript.blocks[i].case
                /\ RaisedAt(i) =>
                      /\ ~test_results[i].passed
                      /\ "error" \in DOMAIN test_results[i]
                      /\ "error_type" \in DOMAIN test_results[i]
    /\ hpc = "done" =>
          /\ output.kind = "json"
          /\ output.json.total = Len(hscript.blocks)

C7_IsPublic(name) == Chars(name)[1] # "_" /\ name # "main"

\* the names to test, each as often as it has cases
RECURSIVE C7_Invocations(_)
C7_Invocations(fs) ==
    IF fs = <<>> THEN <<>>
    ELSE (IF C7_IsPublic(Head(fs).name)
          THEN [i \in 1..Len(_generate_test_cases(Head(fs).name,
                                                  Head(fs).args)) |->
                    Head(fs).name]
          ELSE <<>>) \o C7_Invocations(Tail(fs))

RECURSIVE C7_PublicNames(_)
C7_PublicNames(fs) ==
    IF fs = <<>> THEN <<>>
    ELSE (IF C7_IsPublic(Head(fs).name) THEN <<Head(fs).name>> ELSE <<>>)
             \o C7_PublicNames(Tail(fs))

\* C7: the harness tests exactly the listed functions whose name neither
\* starts with an underscore nor is main, in list order, and a completed
\* run records one outcome per generated case of those functions.
C7_PublicFunctionsTested ==
    hpc \in {"built", "tests", "done"} =>
        /\ hscript.sections = C7_PublicNames(hfunctions)
        /\ [i \in 1..Len(hscript.blocks) |-> hscript.blocks[i].function]
              = C7_Invocations(hfunctions)
        /\ hpc = "done" =>
              output.json.total = Len(C7_Invocations(hfunctions))

\* a completed run over a list that mixes a public function with main
C7_Witness ==
    /\ hpc = "done"
    /\ Len(hfunctions) = 2
    /\ hfunctions[1].name = "main"
    /\ hfunctions[2].name = "show"
    /\ output.json.total = 2

(***************************************************************************)
(* Properties of the structural summary (Spec)                             *)
(***************************************************************************)
\* the last call was a successful analysis
Analysed == last.tool = "analyze_code_structure" /\ ret.status = "success"

\* C11: in the summary of every successfully analysed source,
\* metrics.function_count = len(functions) and
\* metrics.class_count = len(classes).
C11_Counts ==
    Analysed =>
        /\ ret.analysis.metrics.function_count = Len(ret.analysis.functions)
        /\ ret.analysis.metrics.class_count = Len(ret.analysis.classes)

\* a summary with several functions and a class
C11_Witness ==
    /\ Analysed
    /\ Len(ret.analysis.functions) = 3
    /\ Len(ret.analysis.classes) = 1

\* every function definition of a tree, at any depth: its name, its line
\* and whether it was declared with async def
RECURSIVE C12_Definitions(_)
C12_Definitions(body) ==
    IF body = <<>> THEN {}
    ELSE (IF Head(body).kind \in {"FunctionDef", "AsyncFunctionDef"}
          THEN {[name |-> Head(body).name, lineno |-> Head(body).lineno,
                 is_async |-> Head(body).kind = "AsyncFunctionDef"]}
          ELSE {})
            \cup C12_Definitions(Head(body).body)
            \cup C12_Definitions(Tail(body))

\* C12: after a successful analysis, functions has exactly one entry for
\* every function definition of the source (top-level, nested, method;
\* synchronous or asynchronous), and an entry's is_async is true exactly
\* when the function was declared asynchronous.
C12_EveryFunctionListed ==
    Analysed =>
        LET fs == ret.analysis.functions
            defs == C12_Definitions(ParseTree(last.code.text).body)
        IN /\ Len(fs) = Cardinality(defs)
           /\ {[name |-> fs[i].name, lineno |-> fs[i].lineno,
                is_async |-> fs[i].is_async] : i \in 1..Len(fs)} = defs

\* C13: after a successful analysis, the entries of functions and of
\* classes are listed in source order: declaration lines are non-decreasing
\* within each list, also when definitions are nested.
C13_SourceOrder ==
    Analysed =>
        /\ \A i, j \in 1..Len(ret.analysis.functions) :
              i < j => ret.analysis.functions[i].lineno
                          <= ret.analysis.functions[j].lineno
        /\ \A i, j \in 1..Len(ret.analysis.classes) :
              i < j => ret.analysis.classes[i].lineno
                          <= ret.analysis.classes[j].lineno

(***************************************************************************)
(* Properties of the generated test cases (SpecHarness)                    *)
(***************************************************************************)
\* the characters of a pattern of the dispatch
C14_Pattern(pattern) ==
    CASE pattern = "sum" -> <<"s", "u", "m">>
      [] pattern = "prime" -> <<"p", "r", "i", "m", "e">>
      [] OTHER -> Chars(pattern)

C14_Matches(name, pattern) ==
    Contains(Lower(Chars(name)), C14_Pattern(pattern))

\* the descriptions of the cases of each rule, first rule that matches
C14_Descriptions(name, nargs) ==
    IF C14_Matches(name, "add") \/ C14_Matches(name, "sum")
    THEN <<"Basic addition", "Adding zeros", "Positive and negative">>
    ELSE IF C14_Matches(name, "subtract")
    THEN <<"Basic subtraction", "Subtracting zeros">>
    ELSE IF C14_Matches(name, "multiply")
    THEN <<"Basic multiplication", "Multiply by zero">>
    ELSE IF C14_Matches(name, "fibonacci")
    THEN <<"Fibonacci of 0", "Fibonacci of 1", "Fibonacci of 5">>
    ELSE IF C14_Matches(name, "factorial")
    THEN <<"Factorial of 0", "Factorial of 5">>
    ELSE IF C14_Matches(name, "prime")
    THEN <<"2 is prime", "4 is not prime">>
    ELSE IF nargs = 0 THEN <<"No arguments">>
    ELSE IF nargs = 1 THEN <<"Single argument", "Zero input">>
    ELSE <<ToString(nargs) \o " arguments">>

RECURSIVE C14_Expected(_)
C14_Expected(fs) ==
    IF fs = <<>> THEN <<>>
    ELSE (IF C7_IsPublic(Head(fs).name)
          THEN LET ds == C14_Descriptions(Head(fs).name, Len(Head(fs).args))
               IN [i \in 1..Len(ds) |->
                     [function |-> Head(fs).name, case |-> i,
                      description |-> ds[i],
                      generic |-> ~(\E p \in {"add", "sum", "subtract",
                                              "multiply", "fibonacci",
                                              "factorial", "prime"} :
                                       C14_Matches(Head(fs).name, p))]]
          ELSE <<>>) \o C14_Expected(Tail(fs))

C15_Call(i) ==
    CallOutcome(HarnessDefn(hscript.blocks[i].function), hscript.blocks[i])

\* C15: a case whose expected value is the execute-only sentinel is recorded
\* as passed exactly when its call returned, whatever the value; a case with
\* a literal expected value is recorded as passed exactly when its call
\* returned a result equal to the expected value.
C15_PassedIff ==
    \A i \in 1..Len(test_results) :
        IF hscript.blocks[i].expected = StrV("check_execution")
        THEN test_results[i].passed <=> C15_Call(i).how = "return"
        ELSE test_results[i].passed <=>
                /\ C15_Call(i).how = "return"
                /\ C15_Call(i).value.ty \in {"int", "bool"}
                /\ C15_Call(i).value.n = hscript.blocks[i].expected.n

\* a generic case passed on a function that returns nothing useful, and a
\* literal case failed on a returned value, without an exception
C15_Witness ==
    /\ hpc = "done"
    /\ \E i \in 1..Len(test_results) :
          /\ hscript.blocks[i].expected = StrV("check_execution")
          /\ test_results[i].passed
          /\ C15_Call(i).value = NoneV
    /\ \E i \in 1..Len(test_results) :
          /\ hscript.blocks[i].expected # StrV("check_execution")
          /\ ~test_results[i].passed
          /\ "error" \notin DOMAIN test_results[i]

(***************************************************************************)
(* Properties of the printed summary (SpecHarness)                         *)
(***************************************************************************)
\* the first occurrences of the entries of a sequence, in order
RECURSIVE C16_Distinct(_, _)
C16_Distinct(s, seen) ==
    IF s = <<>> THEN <<>>
    ELSE IF Head(s) \in seen THEN C16_Distinct(Tail(s), seen)
    ELSE <<Head(s)>> \o C16_Distinct(Tail(s), seen \cup {Head(s)})

\* C16: the printed JSON has details equal to the first min(10, total)
\* recorded outcomes in execution order, and execution_errors equal to the
\* first 5 distinct execution-error summaries in order of occurrence.
C16_DetailsAndErrors ==
    output.kind = "json" =>
        /\ Len(output.json.details) = Min(10, output.json.total)
        /\ \A i \in 1..Len(output.json.details) :
              output.json.details[i] = test_results[i]
        /\ output.json.execution_errors
              = Take(C16_Distinct(execution_errors, {}), 5)

C18_SuppressedRules ==
    (last.tool = "check_code_style" /\ ret.status = "success") =>
        LET kept == {i \in 1..Len(Found) : Found[i][3] \notin {"E501", "W503"}}
        IN /\ \A i \in 1..Len(ret.issues) :
                 ret.issues[i].code \notin {"E501", "W503"}
           /\ ret.issue_count = Cardinality(kept)
           /\ ret.score = LinearScore(Cardinality(kept))

(***************************************************************************)
(* Properties of generate_and_run_tests (Spec)                             *)
(***************************************************************************)
\* the last call of generate_and_run_tests failed while building the
\* script: there were functions to test and the code was no text
C19_BuildFailed ==
    /\ last.tool = "generate_and_run_tests"
    /\ last.code.py \notin {"str", "NoneType"}
    /\ last.code # PyList("[]")
    /\ StoredFunctions(state) # <<>>

\* C19: if building the cases or the script fails inside
\* generate_and_run_tests, the call returns an error status with
\* test_code_generated false and stores in test_results a zero-test result
\* (passed 0, failed 0, total 0) annotated with the error message.
C19_BuildFailureRecovered ==
    C19_BuildFailed =>
        /\ ret.status = "error"
        /\ "test_code_generated" \in DOMAIN ret
        /\ ret.test_code_generated = FALSE
        /\ TEST_RESULTS \in DOMAIN state
        /\ state[TEST_RESULTS].passed = 0
        /\ state[TEST_RESULTS].failed = 0
        /\ state[TEST_RESULTS].total = 0
        /\ "error" \in DOMAIN state[TEST_RESULTS]
        /\ state[TEST_RESULTS].error = ret.message
        /\ ret.message # ""

\* the build failed in a session that holds the analysis of an earlier
\* submission
C19_Witness ==
    /\ C19_BuildFailed
    /\ ret.status = "error"
    /\ Len(StoredFunctions(state)) >= 1
    /\ TEMP_TEST_CODE \notin DOMAIN state

\* C20: the temporary file of a style check is removed on every exit path of
\* _perform_style_check, also when writing the source raises and when the
\* checker raises: no temporary file of a finished call still exists.
C20_TempFileRemoved ==
    tmp_files = 0

(***************************************************************************)
(* Properties of the pipeline order (Spec)                                 *)
(***************************************************************************)
\* C21: within one submission, the style check and test generation start
\* only after the structure analysis has completed or failed, and the test
\* script is built only after both the structure analysis and the style
\* check have finished.
C21_StageOrder ==
    /\ "check_code_style" \in ran => "analyze_code_structure" \in ran
    /\ "generate_and_run_tests" \in ran =>
          {"analyze_code_structure", "check_code_style"} \subseteq ran
    /\ TEMP_TEST_CODE \in DOMAIN state =>
          {"analyze_code_structure", "check_code_style"} \subseteq ran

\* a submission for which all three stages ran and a script was built
C21_Witness ==
    /\ ran = {"analyze_code_structure", "check_code_style",
              "generate_and_run_tests"}
    /\ TEMP_TEST_CODE \in DOMAIN state
    /\ nsub >= 2

(***************************************************************************)
(* Properties of the grading progress and the grading report               *)
(***************************************************************************)
\* AgentConfig.max_grading_attempts
max_grading_attempts == 3

\* C23: the number of grading attempts recorded for a session never exceeds
\* the configured maximum max_grading_attempts, after any number of
\* submissions.
C23_AttemptsCapped == Get(state, GRADING_ATTEMPTS, 0) <= max_grading_attempts

\* C27: in the report save_grading_report builds after
\* update_grading_progress, improvements.from_last_score is the style score
\* of the previous submission: from_last_score + score_change is the current
\* style score.
C27_FromLastScore ==
    report # NoReport =>
        report.improvements.from_last_score
            + report.improvements.score_change = report.style.score

\* C30: the timestamped report artifact and latest_grading_report.json are
\* saved together or not at all: a save_grading_report call that returns
\* status error with artifact_saved false has saved no artifact.
C30_AllOrNothing ==
    [][(/\ pc = AtStep(3)
        /\ last'.tool = "save_grading_report"
        /\ ret'.status = "error"
        /\ ret'.artifact_saved = FALSE) => artifacts' = artifacts]_vars

(***************************************************************************)
(* Properties of the session state across submissions                      *)
(***************************************************************************)
\* the analysis of the text a script embeds
C24_AnalysisOf(code) == _extract_code_structure(ParseTree(code), code)

\* C24: a test script built by generate_and_run_tests from session state
\* (empty code argument) tests a function list that was extracted from the
\* very source text it embeds, whatever analyses succeeded or failed before.
C24_HarnessFromItsSource ==
    (/\ last.tool = "generate_and_run_tests"
     /\ last.code = PyStr("")
     /\ TEMP_TEST_CODE \in DOMAIN state
     /\ state[TEMP_TEST_CODE].kind = "harness") =>
        LET script == state[TEMP_TEST_CODE]
        IN /\ ~ParseError(script.code).raised
           /\ script = _generate_executable_test_code(
                           script.code, C24_AnalysisOf(script.code).functions)

\* C25: the stored style_score, style_issues and style_issue_count describe
\* the same check, after any sequence of check_code_style calls:
\* style_score = max(0, 100 - 3 * style_issue_count) and
\* len(style_issues) = min(10, style_issue_count).
C25_StyleEntriesAgree ==
    STYLE_SCORE \in DOMAIN state =>
        /\ STYLE_ISSUE_COUNT \in DOMAIN state
        /\ state[STYLE_SCORE] = Max(0, 100 - 3 * state[STYLE_ISSUE_COUNT])
        /\ Len(state[STYLE_ISSUES]) = Min(10, state[STYLE_ISSUE_COUNT])

\* C26: syntax_error is present in the session state only if the most recent
\* analyze_code_structure call failed with a syntax error: after a
\* submission was analysed successfully none remains.
C26_NoStaleSyntaxError ==
    (\/ outcome = "success"
     \/ (last.tool = "analyze_code_structure" /\ ret.status = "success")) =>
        SYNTAX_ERROR \notin DOMAIN state

\* C28: every function the test script invokes is defined at module level
\* in the source it embeds (here: a script built for the source whose
\* analysis is stored); methods and nested functions are not invoked as
\* bare names.
C28_ModuleLevelOnly ==
    (/\ TEMP_TEST_CODE \in DOMAIN state
     /\ state[TEMP_TEST_CODE].kind = "harness"
     /\ ~ParseError(state[TEMP_TEST_CODE].code).raised
     /\ state[CODE_ANALYSIS] = C24_AnalysisOf(state[TEMP_TEST_CODE].code)) =>
        LET script == state[TEMP_TEST_CODE]
        IN \A i \in 1..Len(script.blocks) :
              ModuleDefn(script.code, script.blocks[i].function).defined

(***************************************************************************)
(* Properties of the generated test cases (SpecHarness)                    *)
(***************************************************************************)
\* C29: every test case _generate_test_cases returns for a function supplies
\* exactly as many input values as the function declares parameters.
C29_InputsMatchParameters ==
    hpc = "built" =>
        \A i \in 1..Len(hfunctions) :
            LET cases == _generate_test_cases(hfunctions[i].name,
                                              hfunctions[i].args)
            IN \A k \in 1..Len(cases) :
                  Len(cases[k].input) = Len(hfunctions[i].args)

(***************************************************************************)
(* Properties of concurrent analyses (SpecConcurrent)                      *)
(***************************************************************************)
\* C22: when two analyze_code_structure calls interleave at their await
\* points on the same session state, after both have completed
\* successfully the stored code_analysis is the analysis of the stored
\* code_to_review and code_line_count is that code's line count.
C22_NoForeignValues ==
    (\A t \in TaskIds : tasks[t].pc = "done" /\ tasks[t].ret.status = "success")
        => /\ state[CODE_ANALYSIS] = C24_AnalysisOf(state[CODE_TO_REVIEW])
           /\ state[CODE_LINE_COUNT] = LineCount(state[CODE_TO_REVIEW])

====
